---- MODULE Spec2Model ----
(***************************************************************************)
(* File/folder management of the drive backend (src/routes/files.js):      *)
(* the File collection, each user's storageUsed counter, the S3 bucket and *)
(* the request handlers POST /folder, POST /upload and DELETE /:id.        *)
(* A handler is a sequence of steps, one per `await`: the step performs    *)
(* the awaited database or S3 call and the synchronous code that follows   *)
(* it up to the next await.  Requests of different slots interleave at     *)
(* these steps, as the handlers do on the Node event loop.                 *)
(*                                                                         *)
(* Byte counts are kept in units of 20 bytes so that the capacity          *)
(* (15 * 1024^3 bytes) fits TLC's 32-bit integers: 25 is 500 bytes and     *)
(* 50 is 1000 bytes.  Names and paths are sequences of characters.         *)
(***************************************************************************)
EXTENDS Integers, Sequences, FiniteSets, TLC

\* ------------------------------------------------------------------ bounds
MaxFiles == 3        \* entries the File collection may hold
MaxRequests == 4     \* requests started along one behaviour
MaxInFlight == 2     \* request slots (handlers running at the same time)
MaxConcurrent == 3   \* requests started along one behaviour of the interleaved runs
MaxDeep == 1         \* further entries and requests of the cascade runs

\* ------------------------------------------------------------------ inputs
Users == {"u1", "u2"}
Slots == 1..MaxInFlight

Docs == <<"D", "o", "c", "s">>
DotCs == <<"D", ".", "c", "s">>
Report == <<"r", "e", "p", "o", "r", "t", ".", "p", "d", "f">>
Notes == <<"n", "o", "t", "e", "s", ".", "t", "x", "t">>

\* the auth routes: the emails, passwords and Google credentials of the
\* requests, the random tokens minted and the ticks of the clock
MaxTokens == 2
MaxTime == 2
Emails == Users \cup {"u3"}
Passwords == {"pw1", "pw2"}
Credentials == {"none", "valid", "invalid"}
RawTokens == 1..MaxTokens

\* an id no document ever gets
NoSuchId == MaxFiles + MaxDeep + 1

\* 15 * 1024 * 1024 * 1024 bytes, in units of 20 bytes
MAX_STORAGE == 3 * 256 * 1024 * 1024

\* storageUsed of a user who already holds files this model does not list:
\* root-level files of 1000 bytes less than the capacity in total
NearFull == MAX_STORAGE - 50

VARIABLES
  files,        \* the File collection: files[i] is the document with _id i
  storageUsed,  \* User.storageUsed of each user
  legacyBytes,  \* total size of each user's non-deleted files not listed in files
  blobs,        \* keys of the objects in the S3 bucket
  nextKey,      \* the next key generateFileName() yields
  req,          \* req[r]: the request handled in slot r, with the handler's locals
  started,      \* number of requests started so far
  accounts,     \* the User collection by email: the fields the auth routes use
  now,          \* Date.now(), in units of the tokens' lifetime
  minted,       \* number of random tokens generated so far
  reply         \* the last answer of an auth route, with what it was asked

fileVars == <<files, storageUsed, legacyBytes, blobs, nextKey, req, started>>
authVars == <<accounts, now, minted, reply>>
vars == <<files, storageUsed, legacyBytes, blobs, nextKey, req, started,
          accounts, now, minted, reply>>

\* ----------------------------------------------------------------- helpers
\* the difference taken as it comes, without the floor
SecondOf(a, b) == b

\* Math.max(a, b)
Max(a, b) == IF a >= b THEN a ELSE b

RECURSIVE SumSizes(_)
SumSizes(S) ==
  IF S = {} THEN 0
  ELSE LET i == CHOOSE x \in S : TRUE IN files[i].size + SumSizes(S \ {i})

Ids == 1..Len(files)

\* File.findById(id): the document, whatever its owner and isDeleted
Exists(id) == id \in Ids

\* `/${name}` and `${parent.path}/${name}`
RootPath(name) == <<"/">> \o name
ChildPath(parentPath, name) == parentPath \o <<"/">> \o name

\* new RegExp(`^${p}/`).test(s) for a path p over the model's characters: the
\* only pattern character among them is ".", which matches any one character;
\* every other character matches itself
CharMatches(pc, c) == pc = "." \/ pc = c
RegexPathMatches(p, s) ==
  LET pat == p \o <<"/">> IN
  /\ Len(s) >= Len(pat)
  /\ \A i \in 1..Len(pat) : CharMatches(pat[i], s[i])

\* the path query without the owner in its filter
PathQueryAnyOwner(owner, p) ==
  {i \in Ids : RegexPathMatches(p, files[i].path) /\ ~files[i].isDeleted}

\* the path query without isDeleted in its filter
PathQueryDeletedToo(owner, p) ==
  {i \in Ids : files[i].owner = owner /\ RegexPathMatches(p, files[i].path)}

\* File.find({ owner, path: { $regex: `^${p}/` }, isDeleted: false })
PathQuery(owner, p) ==
  {i \in Ids : /\ files[i].owner = owner
               /\ RegexPathMatches(p, files[i].path)
               /\ ~files[i].isDeleted}

\* File.findOne that finds nothing
FindNoSibling(name, type, parent, owner) == {}

\* File.findOne without the type in the filter
FindSiblingAnyType(name, type, parent, owner) ==
  {i \in Ids : /\ files[i].name = name
               /\ files[i].parentFolder = parent
               /\ files[i].owner = owner
               /\ ~files[i].isDeleted}

\* File.findOne({ name, type, parentFolder: parentFolder || null, owner, isDeleted: false })
FindSibling(name, type, parent, owner) ==
  {i \in Ids : /\ files[i].name = name
               /\ files[i].type = type
               /\ files[i].parentFolder = parent
               /\ files[i].owner = owner
               /\ ~files[i].isDeleted}

\* the path built without the parent's path
BuildPathAtRoot(name, parent, owner) == RootPath(name)

\* the path both create handlers build: the parent's path is used only when the
\* parent exists and belongs to the requester
BuildPath(name, parent, owner) ==
  IF parent # 0 /\ Exists(parent) /\ files[parent].owner = owner
  THEN ChildPath(files[parent].path, name)
  ELSE RootPath(name)

\* GET /api/files: File.find({ owner, parentFolder, isDeleted: false })
List(owner, parent) ==
  {i \in Ids : /\ files[i].owner = owner
               /\ files[i].parentFolder = parent
               /\ ~files[i].isDeleted}

\* the characters of the names, in the order of their code points
Alphabet == <<".", "D", "c", "d", "e", "f", "n", "o", "p", "r", "s", "t", "x">>
Code(c) == CHOOSE k \in 1..Len(Alphabet) : Alphabet[k] = c

\* a < b as MongoDB compares strings in a sort: code point by code point, a
\* proper prefix first
NameBefore(a, b) ==
  \E k \in 1..(Len(a) + 1) :
    /\ k <= Len(b)
    /\ \A j \in 1..(k - 1) : a[j] = b[j]
    /\ k > Len(a) \/ Code(a[k]) < Code(b[k])

\* the sort with the kinds the other way round: files first
SortsBeforeFilesFirst(i, j) ==
  \/ files[i].type = "file" /\ files[j].type = "folder"
  \/ files[i].type = files[j].type /\ NameBefore(files[i].name, files[j].name)

\* .sort({ type: -1, name: 1 }): 'folder' before 'file', then ascending name
SortsBefore(i, j) ==
  \/ files[i].type = "folder" /\ files[j].type = "file"
  \/ files[i].type = files[j].type /\ NameBefore(files[i].name, files[j].name)

\* the orders the sort may give the documents S (equal keys in any order)
SortedSeqs(S) ==
  {s \in [1..Cardinality(S) -> S] :
     /\ \A a, b \in 1..Cardinality(S) : a # b => s[a] # s[b]
     /\ \A a, b \in 1..Cardinality(S) : a < b => ~SortsBefore(s[b], s[a])}

\* isDeleted flipped instead of set
ToggleDeleted(f) == [f EXCEPT !.isDeleted = ~f.isDeleted]

\* { isDeleted: true, deletedAt: new Date() } written to a document
MarkDeleted(f) == [f EXCEPT !.isDeleted = TRUE]

\* new File({...}) with the schema's defaults
NewFile(name, type, size, path, key, parent, owner) ==
  [name |-> name, type |-> type, size |-> size, path |-> path, s3Key |-> key,
   parentFolder |-> parent, owner |-> owner, isDeleted |-> FALSE]

\* ---------------------------------------------------------------- requests
Idle ==
  [op |-> "none", user |-> "u1", name |-> <<>>, parent |-> 0, size |-> 0, id |-> 0,
   pc |-> "idle", snap |-> 0, path |-> <<>>, kids |-> {}, key |-> 0,
   status |-> 0, msg |-> "", out |-> 0, url |-> 0, found |-> {}, sorted |-> <<>>,
   used0 |-> 0, len0 |-> 0, del0 |-> {}]

\* a request as it arrives: the route, the authenticated user and the inputs
Request(op, u, n, p, sz, id) ==
  [op |-> op, user |-> u, name |-> n, parent |-> p, size |-> sz, id |-> id]

\* the ids a client can name: null (0), a document it has seen, or an unknown id
KnownIds == 1..Len(files)
ParentChoices == {0} \cup KnownIds \cup {NoSuchId}
TargetChoices == KnownIds \cup {NoSuchId}

\* F: the (user, name) pairs of the folders asked for; P: the (user, name, size)
\* triples of the uploads; U: the users who delete
\* and Par the parentFolder values they may carry
FolderRequests(F, Par) ==
  {Request("folder", f[1], f[2], p, 0, 0) : f \in F, p \in Par}
UploadRequests(P, Par) ==
  {Request("upload", f[1], f[2], p, f[3], 0) : f \in P, p \in Par}
DeleteRequests(U) ==
  {Request("delete", u, <<>>, 0, 0, id) : u \in U, id \in TargetChoices}

\* GET requests: the download of an entry, the listing of a parent, the search
\* for the pattern n and the listing under the path n
DownloadRequests(U) ==
  {Request("download", u, <<>>, 0, 0, id) : u \in U, id \in TargetChoices}
ListRequests(U, Par) == {Request("list", u, <<>>, p, 0, 0) : u \in U, p \in Par}
SearchRequests(U, Q) == {Request("search", u, n, 0, 0, 0) : u \in U, n \in Q}
PathRequests(U, Q) == {Request("path", u, n, 0, 0, 0) : u \in U, n \in Q}

\* res.status(s).json({ message, storageUsed }): the handler ends; its locals go
Respond(q, s, m, o) ==
  [q EXCEPT !.pc = "done", !.status = s, !.msg = m, !.out = o,
            !.snap = 0, !.path = <<>>, !.key = 0]

InFlight(r) == req[r].pc \notin {"idle", "done"}
Quiescent == \A r \in Slots : ~InFlight(r)
Deleted == {i \in 1..Len(files) : files[i].isDeleted}

\* no document with that email
NoUser ==
  [exists |-> FALSE, isActive |-> FALSE, password |-> "", googleId |-> FALSE,
   activationToken |-> 0, activationTokenExpires |-> 0,
   passwordResetToken |-> 0, passwordResetExpires |-> 0]
\* the users of the file routes: registered, activated, signed in
Member == [NoUser EXCEPT !.exists = TRUE, !.isActive = TRUE, !.password = "pw1"]
\* no auth request answered yet; before is the User document the request met
\* and at the time it came in
NoReply ==
  [op |-> "none", email |-> "", password |-> "", credential |-> "none", raw |-> 0,
   status |-> 0, token |-> "", before |-> NoUser, at |-> 0]

Init ==
  /\ files = <<>>
  /\ \E b \in {0, NearFull} :
       /\ storageUsed = [u \in Users |-> IF u = "u1" THEN b ELSE 0]
       /\ legacyBytes = [u \in Users |-> IF u = "u1" THEN b ELSE 0]
  /\ blobs = {}
  /\ nextKey = 1
  /\ req = [r \in Slots |-> Idle]
  /\ started = 0
  /\ accounts = [e \in Emails |-> IF e \in Users THEN Member ELSE NoUser]
  /\ now = 0
  /\ minted = 0
  /\ reply = NoReply

\* entries the requests in flight may still insert
Pending == Cardinality({r \in Slots : InFlight(r) /\ req[r].op \in {"folder", "upload"}})

FirstStep(op) ==
  IF op = "folder" THEN "f_findOne"
  ELSE IF op = "upload" THEN "u_findUser"
  ELSE IF op = "delete" THEN "d_findById"
  ELSE IF op = "download" THEN "g_findById"
  ELSE "g_find"

\* a request of the set I arrives and its handler starts in the free slot r;
\* a behaviour starts at most n requests and creates at most m entries
Start(r, I, n, m) ==
  /\ ~InFlight(r)
  /\ started < n
  /\ \E i \in I :
       /\ i.op \in {"folder", "upload"} => Len(files) + Pending < m
       /\ req' = [req EXCEPT ![r] =
            [Idle EXCEPT !.op = i.op, !.user = i.user, !.name = i.name,
                         !.parent = i.parent, !.size = i.size, !.id = i.id,
                         !.pc = FirstStep(i.op), !.used0 = storageUsed[i.user],
                         !.len0 = Len(files), !.del0 = Deleted]]
  /\ started' = started + 1
  /\ UNCHANGED <<files, storageUsed, legacyBytes, blobs, nextKey>>
  /\ UNCHANGED authVars

\* ------------------------------------------------- POST /api/files/folder
\* existingFolder = await File.findOne(...); 400 when found
FolderFindOne(r) ==
  /\ req[r].pc = "f_findOne"
  /\ LET q == req[r] IN
     req' = [req EXCEPT ![r] =
       IF FindSibling(q.name, "folder", q.parent, q.user) # {}
       THEN Respond(q, 400, "exists", 0)
       ELSE IF q.parent # 0
            THEN [q EXCEPT !.pc = "f_findParent"]
            ELSE [q EXCEPT !.pc = "f_save", !.path = RootPath(q.name)]]
  /\ UNCHANGED <<files, storageUsed, legacyBytes, blobs, nextKey, started>>
  /\ UNCHANGED authVars

\* parent = await File.findById(parentFolder); build path
FolderFindParent(r) ==
  /\ req[r].pc = "f_findParent"
  /\ LET q == req[r] IN
     req' = [req EXCEPT ![r] =
       [q EXCEPT !.pc = "f_save", !.path = BuildPath(q.name, q.parent, q.user)]]
  /\ UNCHANGED <<files, storageUsed, legacyBytes, blobs, nextKey, started>>
  /\ UNCHANGED authVars

\* await folder.save(); 201
FolderSave(r) ==
  /\ req[r].pc = "f_save"
  /\ LET q == req[r] IN
     /\ files' = Append(files, NewFile(q.name, "folder", 0, q.path, 0, q.parent, q.user))
     /\ req' = [req EXCEPT ![r] = [Respond(q, 201, "created", 0) EXCEPT !.id = Len(files) + 1]]
  /\ UNCHANGED <<storageUsed, legacyBytes, blobs, nextKey, started>>
  /\ UNCHANGED authVars

\* ------------------------------------------------- POST /api/files/upload
\* user.storageUsed + req.file.size > MAX_STORAGE, without the size
LimitIgnoresSize(used, size) == used > MAX_STORAGE

\* the limit check that never rejects
NeverOverLimit(used, size) == FALSE

\* the limit check with >= for >
AtLimitToo(used, size) == used + size >= MAX_STORAGE

\* user.storageUsed + req.file.size > MAX_STORAGE
OverLimit(used, size) == used + size > MAX_STORAGE

\* user = await User.findById(req.user.id); the storage limit check
UploadFindUser(r) ==
  /\ req[r].pc = "u_findUser"
  /\ LET q == req[r]
         used == storageUsed[q.user] IN
     req' = [req EXCEPT ![r] =
       IF OverLimit(used, q.size)
       THEN Respond(q, 400, "limit", 0)
       ELSE [q EXCEPT !.pc = "u_findOne", !.snap = used]]
  /\ UNCHANGED <<files, storageUsed, legacyBytes, blobs, nextKey, started>>
  /\ UNCHANGED authVars

\* existingFile = await File.findOne(...); 400 when found
UploadFindOne(r) ==
  /\ req[r].pc = "u_findOne"
  /\ LET q == req[r] IN
     req' = [req EXCEPT ![r] =
       IF FindSibling(q.name, "file", q.parent, q.user) # {}
       THEN Respond(q, 400, "exists", 0)
       ELSE IF q.parent # 0
            THEN [q EXCEPT !.pc = "u_findParent"]
            ELSE [q EXCEPT !.pc = "u_s3", !.path = RootPath(q.name)]]
  /\ UNCHANGED <<files, storageUsed, legacyBytes, blobs, nextKey, started>>
  /\ UNCHANGED authVars

\* parent = await File.findById(parentFolder); build filePath
UploadFindParent(r) ==
  /\ req[r].pc = "u_findParent"
  /\ LET q == req[r] IN
     req' = [req EXCEPT ![r] =
       [q EXCEPT !.pc = "u_s3", !.path = BuildPath(q.name, q.parent, q.user)]]
  /\ UNCHANGED <<files, storageUsed, legacyBytes, blobs, nextKey, started>>
  /\ UNCHANGED authVars

\* the error of the put swallowed: the handler goes on to save the document
UploadCatchContinues(q) == [q EXCEPT !.pc = "u_save"]

\* catch (error): 500 'Server error during file upload'
UploadCatch(q) == Respond(q, 500, "error", 0)

\* s3Key = await uploadFileToS3(req.file, req.user.id): the object is stored
\* under a fresh key, or the call throws and the handler answers 500
UploadToS3(r) ==
  /\ req[r].pc = "u_s3"
  /\ LET q == req[r] IN
     \E ok \in BOOLEAN :
       IF ok
       THEN /\ blobs' = blobs \cup {nextKey}
            /\ nextKey' = nextKey + 1
            /\ req' = [req EXCEPT ![r] = [q EXCEPT !.pc = "u_save", !.key = nextKey]]
       ELSE /\ req' = [req EXCEPT ![r] = UploadCatch(q)]
            /\ UNCHANGED <<blobs, nextKey>>
  /\ UNCHANGED <<files, storageUsed, legacyBytes, started>>
  /\ UNCHANGED authVars

\* await file.save()
UploadSave(r) ==
  /\ req[r].pc = "u_save"
  /\ LET q == req[r] IN
     /\ files' = Append(files, NewFile(q.name, "file", q.size, q.path, q.key, q.parent, q.user))
     /\ req' = [req EXCEPT ![r] = [q EXCEPT !.pc = "u_saveUser", !.id = Len(files) + 1]]
  /\ UNCHANGED <<storageUsed, legacyBytes, blobs, nextKey, started>>
  /\ UNCHANGED authVars

\* user.storageUsed = (user.storageUsed || 0) + itemsSize; await user.save(); 201
\* user is the document read by the first step
UploadSaveUser(r) ==
  /\ req[r].pc = "u_saveUser"
  /\ LET q == req[r]
         new == q.snap + q.size IN
     /\ storageUsed' = [storageUsed EXCEPT ![q.user] = new]
     /\ req' = [req EXCEPT ![r] = Respond(q, 201, "uploaded", new)]
  /\ UNCHANGED <<files, legacyBytes, blobs, nextKey, started>>
  /\ UNCHANGED authVars

\* --------------------------------------------------- DELETE /api/files/:id
\* the owner check left out
NeverDenied(file, user) == FALSE

\* file.owner.toString() !== req.user.id
AccessDenied(file, user) == file.owner # user

\* file = await File.findById(req.params.id); 404 when absent, 403 for another
\* owner; the lookup does not look at isDeleted
DeleteFindById(r) ==
  /\ req[r].pc = "d_findById"
  /\ LET q == req[r] IN
     req' = [req EXCEPT ![r] =
       IF ~Exists(q.id) THEN Respond(q, 404, "not found", 0)
       ELSE IF AccessDenied(files[q.id], q.user) THEN Respond(q, 403, "denied", 0)
       ELSE [q EXCEPT !.pc = "d_save"]]
  /\ UNCHANGED <<files, storageUsed, legacyBytes, blobs, nextKey, started>>
  /\ UNCHANGED authVars

\* file.isDeleted = true; file.deletedAt = new Date(); await file.save()
DeleteSave(r) ==
  /\ req[r].pc = "d_save"
  /\ LET q == req[r] IN
     /\ files' = [files EXCEPT ![q.id] = MarkDeleted(files[q.id])]
     /\ req' = [req EXCEPT ![r] =
          [q EXCEPT !.pc = IF files[q.id].type = "file" THEN "d_findUser" ELSE "d_find"]]
  /\ UNCHANGED <<storageUsed, legacyBytes, blobs, nextKey, started>>
  /\ UNCHANGED authVars

\* file: user = await User.findById(req.user.id)
DeleteFindUser(r) ==
  /\ req[r].pc = "d_findUser"
  /\ LET q == req[r] IN
     req' = [req EXCEPT ![r] = [q EXCEPT !.pc = "d_saveUser", !.snap = storageUsed[q.user]]]
  /\ UNCHANGED <<files, storageUsed, legacyBytes, blobs, nextKey, started>>
  /\ UNCHANGED authVars

\* file: user.storageUsed = Math.max(0, user.storageUsed - file.size); await
\* user.save(); updatedStorageUsed = user.storageUsed.  A file without an s3Key
\* is answered at once.
DeleteSaveUser(r) ==
  /\ req[r].pc = "d_saveUser"
  /\ LET q == req[r]
         new == Max(0, q.snap - files[q.id].size) IN
     /\ storageUsed' = [storageUsed EXCEPT ![q.user] = new]
     /\ req' = [req EXCEPT ![r] =
          IF files[q.id].s3Key # 0
          THEN [q EXCEPT !.pc = "d_s3", !.out = new]
          ELSE Respond(q, 200, "deleted", new)]
  /\ UNCHANGED <<files, legacyBytes, blobs, nextKey, started>>
  /\ UNCHANGED authVars

\* deleteFileFromS3(s3Key): the object is removed, or the call throws
deleteFileFromS3(store, key, ok) == IF ok THEN store \ {key} ELSE store

\* file: try { await deleteFileFromS3(file.s3Key) } catch { log }; 200
DeleteS3(r) ==
  /\ req[r].pc = "d_s3"
  /\ LET q == req[r] IN
     /\ \E ok \in BOOLEAN : blobs' = deleteFileFromS3(blobs, files[q.id].s3Key, ok)
     /\ req' = [req EXCEPT ![r] = Respond(q, 200, "deleted", q.out)]
  /\ UNCHANGED <<files, storageUsed, legacyBytes, nextKey, started>>
  /\ UNCHANGED authVars

\* the childFiles that have an object in S3
WithObject(S) == {i \in S : files[i].type = "file" /\ files[i].s3Key # 0}

\* folder: childFiles = await File.find({ owner, path: /^path\//, isDeleted: false })
DeleteFind(r) ==
  /\ req[r].pc = "d_find"
  /\ LET q == req[r]
         childFiles == PathQuery(q.user, files[q.id].path) IN
     req' = [req EXCEPT ![r] =
       [q EXCEPT !.kids = childFiles,
                 !.pc = IF WithObject(childFiles) # {} THEN "d_s3Kids" ELSE "d_updateMany"]]
  /\ UNCHANGED <<files, storageUsed, legacyBytes, blobs, nextKey, started>>
  /\ UNCHANGED authVars

\* folder: for each child file, try { await deleteFileFromS3 } catch { log }.
\* The calls touch the bucket only, so the loop is one step; any of them may throw.
DeleteS3Kids(r) ==
  /\ req[r].pc = "d_s3Kids"
  /\ LET q == req[r] IN
     /\ \E thrown \in SUBSET WithObject(q.kids) :
          blobs' = blobs \ {files[i].s3Key : i \in WithObject(q.kids) \ thrown}
     /\ req' = [req EXCEPT ![r] = [q EXCEPT !.pc = "d_updateMany"]]
  /\ UNCHANGED <<files, storageUsed, legacyBytes, nextKey, started>>
  /\ UNCHANGED authVars

\* folder: await File.updateMany({ owner, path: /^path\//, isDeleted: false },
\* { isDeleted: true, deletedAt }): the filter is evaluated anew
DeleteUpdateMany(r) ==
  /\ req[r].pc = "d_updateMany"
  /\ LET q == req[r]
         hit == PathQuery(q.user, files[q.id].path) IN
     /\ files' = [i \in 1..Len(files) |->
                    IF i \in hit THEN MarkDeleted(files[i]) ELSE files[i]]
     /\ req' = [req EXCEPT ![r] = [q EXCEPT !.pc = "d_findUser2"]]
  /\ UNCHANGED <<storageUsed, legacyBytes, blobs, nextKey, started>>
  /\ UNCHANGED authVars

\* childFiles.reduce((acc, curr) => acc + (curr.size || 0), 0)
totalSize(childFiles) == SumSizes(childFiles)

\* the answer carries the usage read when the request came in
AfterFolderUsageStale(q, updatedStorageUsed) == Respond(q, 200, "deleted", q.used0)

\* where a folder delete goes once updatedStorageUsed is set: a folder whose
\* updatedStorageUsed is 0 reads the user once more before it answers
AfterFolderUsage(q, updatedStorageUsed) ==
  IF updatedStorageUsed = 0
  THEN [q EXCEPT !.pc = "d_findUser3", !.out = updatedStorageUsed]
  ELSE Respond(q, 200, "deleted", updatedStorageUsed)

\* folder: user = await User.findById(req.user.id); with totalSize = 0 no save
\* follows and updatedStorageUsed = user.storageUsed
DeleteFindUser2(r) ==
  /\ req[r].pc = "d_findUser2"
  /\ LET q == req[r]
         used == storageUsed[q.user] IN
     req' = [req EXCEPT ![r] =
       IF totalSize(q.kids) > 0
       THEN [q EXCEPT !.pc = "d_saveUser2", !.snap = used]
       ELSE AfterFolderUsage(q, used)]
  /\ UNCHANGED <<files, storageUsed, legacyBytes, blobs, nextKey, started>>
  /\ UNCHANGED authVars

\* folder: user.storageUsed = Math.max(0, user.storageUsed - totalSize); await user.save()
DeleteSaveUser2(r) ==
  /\ req[r].pc = "d_saveUser2"
  /\ LET q == req[r]
         new == Max(0, q.snap - totalSize(q.kids)) IN
     /\ storageUsed' = [storageUsed EXCEPT ![q.user] = new]
     /\ req' = [req EXCEPT ![r] = AfterFolderUsage(q, new)]
  /\ UNCHANGED <<files, legacyBytes, blobs, nextKey, started>>
  /\ UNCHANGED authVars

\* folder with updatedStorageUsed === 0: user = await User.findById(...); 200
DeleteFindUser3(r) ==
  /\ req[r].pc = "d_findUser3"
  /\ LET q == req[r] IN
     req' = [req EXCEPT ![r] = Respond(q, 200, "deleted", storageUsed[q.user])]
  /\ UNCHANGED <<files, storageUsed, legacyBytes, blobs, nextKey, started>>
  /\ UNCHANGED authVars

\* --------------------------------------------- GET /api/files/:id/download
\* the kind check left out
DownloadsAnyKind(file) == FALSE

\* file.type === 'folder'
CannotDownload(file) == file.type = "folder"

\* file = await File.findById(req.params.id); 404 when absent, 403 for another
\* owner, 400 for a folder; the lookup does not look at isDeleted
DownloadFindById(r) ==
  /\ req[r].pc = "g_findById"
  /\ LET q == req[r] IN
     req' = [req EXCEPT ![r] =
       IF ~Exists(q.id) THEN Respond(q, 404, "not found", 0)
       ELSE IF AccessDenied(files[q.id], q.user) THEN Respond(q, 403, "denied", 0)
       ELSE IF CannotDownload(files[q.id]) THEN Respond(q, 400, "folder", 0)
       ELSE [q EXCEPT !.pc = "g_sign"]]
  /\ UNCHANGED <<files, storageUsed, legacyBytes, blobs, nextKey, started>>
  /\ UNCHANGED authVars

\* downloadUrl = await getSignedDownloadUrl(file.s3Key): a URL for the key is
\* signed without asking the bucket, or the call throws and the answer is 500
DownloadSign(r) ==
  /\ req[r].pc = "g_sign"
  /\ LET q == req[r] IN
     \E ok \in BOOLEAN :
       req' = [req EXCEPT ![r] =
         IF ok THEN [Respond(q, 200, "url", 0) EXCEPT !.url = files[q.id].s3Key]
         ELSE Respond(q, 500, "error", 0)]
  /\ UNCHANGED <<files, storageUsed, legacyBytes, blobs, nextKey, started>>
  /\ UNCHANGED authVars

\* ------------------------------------ GET /api/files, /search and /path/*
\* 'i': letters are compared without their case
Lower(c) == IF c = "D" THEN "d" ELSE c
\* the pattern q matches s at offset k: "." matches any character
MatchesAt(q, s, k) ==
  /\ k + Len(q) <= Len(s)
  /\ \A i \in 1..Len(q) : q[i] = "." \/ Lower(q[i]) = Lower(s[k + i])
\* new RegExp(q, 'i').test(s): the pattern is not anchored
RegexFinds(q, s) == \E k \in 0..Len(s) : MatchesAt(q, s, k)

\* the search without isDeleted in its filter
SearchDeletedToo(owner, q) ==
  {i \in Ids : files[i].owner = owner /\ RegexFinds(q, files[i].name)}

\* File.find({ owner, name: { $regex: q, $options: 'i' }, isDeleted: false })
Search(owner, q) ==
  {i \in Ids : /\ files[i].owner = owner
               /\ RegexFinds(q, files[i].name)
               /\ ~files[i].isDeleted}

\* GET /api/files: files = await File.find({ owner, parentFolder, isDeleted:
\* false }); 200 with the documents (populate fills in each parent's name)
ListFind(r) ==
  /\ req[r].pc = "g_find" /\ req[r].op = "list"
  /\ LET q == req[r] IN
     \E s \in SortedSeqs(List(q.user, q.parent)) :
       req' = [req EXCEPT ![r] =
         [Respond(q, 200, "files", 0) EXCEPT !.found = List(q.user, q.parent), !.sorted = s]]
  /\ UNCHANGED <<files, storageUsed, legacyBytes, blobs, nextKey, started>>
  /\ UNCHANGED authVars

\* GET /api/files/path/*: the visible documents of the requester whose path
\* matches `^${path}/`
PathFind(r) ==
  /\ req[r].pc = "g_find" /\ req[r].op = "path"
  /\ LET q == req[r] IN
     \E s \in SortedSeqs(PathQuery(q.user, q.name)) :
       req' = [req EXCEPT ![r] =
         [Respond(q, 200, "files", 0) EXCEPT !.found = PathQuery(q.user, q.name), !.sorted = s]]
  /\ UNCHANGED <<files, storageUsed, legacyBytes, blobs, nextKey, started>>
  /\ UNCHANGED authVars

\* GET /api/files/search: 400 without q, else 200 with the matching documents
SearchFind(r) ==
  /\ req[r].pc = "g_find" /\ req[r].op = "search"
  /\ LET q == req[r] IN
     \E s \in SortedSeqs(Search(q.user, q.name)) :
       req' = [req EXCEPT ![r] =
         IF q.name = <<>> THEN Respond(q, 400, "query", 0)
         ELSE [Respond(q, 200, "files", 0) EXCEPT !.found = Search(q.user, q.name), !.sorted = s]]
  /\ UNCHANGED <<files, storageUsed, legacyBytes, blobs, nextKey, started>>
  /\ UNCHANGED authVars

\* ------------------------------------------------------------- any handler
\* an awaited database call rejects: the handler's catch block answers 500
Fail(r) ==
  /\ InFlight(r)
  /\ req[r].pc \notin {"u_s3", "d_s3", "d_s3Kids", "g_sign"}
  /\ req' = [req EXCEPT ![r] = Respond(req[r], 500, "error", 0)]
  /\ UNCHANGED <<files, storageUsed, legacyBytes, blobs, nextKey, started>>
  /\ UNCHANGED authVars

Step(r) ==
  \/ FolderFindOne(r) \/ FolderFindParent(r) \/ FolderSave(r)
  \/ UploadFindUser(r) \/ UploadFindOne(r) \/ UploadFindParent(r)
  \/ UploadToS3(r) \/ UploadSave(r) \/ UploadSaveUser(r)
  \/ DeleteFindById(r) \/ DeleteSave(r) \/ DeleteFindUser(r) \/ DeleteSaveUser(r)
  \/ DeleteS3(r) \/ DeleteFind(r) \/ DeleteS3Kids(r) \/ DeleteUpdateMany(r)
  \/ DeleteFindUser2(r) \/ DeleteSaveUser2(r) \/ DeleteFindUser3(r)

\* ------------------------------------------------------------ /api/auth
\* crypto.createHash('sha256').update(token).digest('hex'): the stored form of
\* a raw token, which no raw token equals
Hash(raw) == MaxTokens + raw

\* the lifetime of a token: one tick of the clock
TokenTTL == 1

\* res.status(s).json(...), with the token when one was signed
Answer(op, e, pw, c, raw, s, token, before) ==
  [op |-> op, email |-> e, password |-> pw, credential |-> c, raw |-> raw,
   status |-> s, token |-> token, before |-> before, at |-> now]

\* jwt.sign({ id }): the token names the user
generateToken(e) == e

\* POST /register: 400 for a known email; else the user is saved inactive with
\* a fresh activation token and the activation mail is sent (201) or not (500)
Register(e, pw) ==
  /\ minted < MaxTokens
  /\ IF accounts[e].exists
     THEN /\ reply' = Answer("register", e, pw, "none", 0, 400, "", accounts[e])
          /\ UNCHANGED <<accounts, minted>>
     ELSE /\ accounts' = [accounts EXCEPT ![e] =
               [NoUser EXCEPT !.exists = TRUE, !.password = pw,
                              !.activationToken = Hash(minted + 1),
                              !.activationTokenExpires = now + TokenTTL]]
          /\ minted' = minted + 1
          /\ \E sent \in BOOLEAN :
               reply' = Answer("register", e, pw, "none", 0,
                               IF sent THEN 201 ELSE 500, "", accounts[e])
  /\ UNCHANGED now
  /\ UNCHANGED fileVars

\* User.findOne({ activationToken: hashedToken, activationTokenExpires: { $gt: Date.now() } })
FindByActivationToken(raw) ==
  {e \in Emails : /\ accounts[e].exists
                  /\ accounts[e].activationToken = Hash(raw)
                  /\ accounts[e].activationTokenExpires > now}

\* GET /activate/:token: 400 for an unknown or expired token; else the user is
\* made active and the token cleared
Activate(raw) ==
  /\ IF FindByActivationToken(raw) = {}
     THEN /\ reply' = Answer("activate", "", "", "none", raw, 400, "", NoUser)
          /\ UNCHANGED accounts
     ELSE \E e \in FindByActivationToken(raw) :
            /\ accounts' = [accounts EXCEPT ![e] =
                 [@ EXCEPT !.isActive = TRUE, !.activationToken = 0,
                           !.activationTokenExpires = 0]]
            /\ reply' = Answer("activate", e, "", "none", raw, 200, "", accounts[e])
  /\ UNCHANGED <<now, minted>>
  /\ UNCHANGED fileVars

\* the activation check left out
ActivationNotRequired(user) == FALSE

\* !user.isActive
NotActivated(user) == ~user.isActive

\* user.comparePassword(password)
comparePassword(user, pw) == user.password = pw

\* POST /login: 401 for an unknown email, an inactive account and a wrong
\* password; else 200 with a token for the user
Login(e, pw) ==
  /\ LET user == accounts[e] IN
     reply' =
       IF ~user.exists THEN Answer("login", e, pw, "none", 0, 401, "", user)
       ELSE IF NotActivated(user) THEN Answer("login", e, pw, "none", 0, 401, "", user)
       ELSE IF ~comparePassword(user, pw) THEN Answer("login", e, pw, "none", 0, 401, "", user)
       ELSE Answer("login", e, pw, "none", 0, 200, generateToken(e), user)
  /\ UNCHANGED <<accounts, now, minted>>
  /\ UNCHANGED fileVars

\* POST /forgot-password: 404 for an unknown email; else a fresh reset token is
\* saved and mailed (200) or the mail fails (500)
ForgotPassword(e) ==
  /\ minted < MaxTokens
  /\ IF ~accounts[e].exists
     THEN /\ reply' = Answer("forgot", e, "", "none", 0, 404, "", accounts[e])
          /\ UNCHANGED <<accounts, minted>>
     ELSE /\ accounts' = [accounts EXCEPT ![e] =
               [@ EXCEPT !.passwordResetToken = Hash(minted + 1),
                         !.passwordResetExpires = now + TokenTTL]]
          /\ minted' = minted + 1
          /\ \E sent \in BOOLEAN :
               reply' = Answer("forgot", e, "", "none", 0,
                               IF sent THEN 200 ELSE 500, "", accounts[e])
  /\ UNCHANGED now
  /\ UNCHANGED fileVars

\* POST /resend-activation: 404 for an unknown email, 400 for an active
\* account; else a fresh activation token is saved and mailed (200 or 500)
ResendActivation(e) ==
  /\ minted < MaxTokens
  /\ IF ~accounts[e].exists \/ accounts[e].isActive
     THEN /\ reply' = Answer("resend", e, "", "none", 0,
                             IF accounts[e].exists THEN 400 ELSE 404, "", accounts[e])
          /\ UNCHANGED <<accounts, minted>>
     ELSE /\ accounts' = [accounts EXCEPT ![e] =
               [@ EXCEPT !.activationToken = Hash(minted + 1),
                         !.activationTokenExpires = now + TokenTTL]]
          /\ minted' = minted + 1
          /\ \E sent \in BOOLEAN :
               reply' = Answer("resend", e, "", "none", 0,
                               IF sent THEN 200 ELSE 500, "", accounts[e])
  /\ UNCHANGED now
  /\ UNCHANGED fileVars

\* User.findOne({ passwordResetToken: hashedToken, passwordResetExpires: { $gt: Date.now() } })
FindByResetToken(raw) ==
  {e \in Emails : /\ accounts[e].exists
                  /\ accounts[e].passwordResetToken = Hash(raw)
                  /\ accounts[e].passwordResetExpires > now}

\* POST /reset-password/:token: 400 for an unknown or expired token; else the
\* password is replaced and the token cleared
ResetPassword(raw, pw) ==
  /\ IF FindByResetToken(raw) = {}
     THEN /\ reply' = Answer("reset", "", pw, "none", raw, 400, "", NoUser)
          /\ UNCHANGED accounts
     ELSE \E e \in FindByResetToken(raw) :
            /\ accounts' = [accounts EXCEPT ![e] =
                 [@ EXCEPT !.password = pw, !.passwordResetToken = 0,
                           !.passwordResetExpires = 0]]
            /\ reply' = Answer("reset", e, pw, "none", raw, 200, "", accounts[e])
  /\ UNCHANGED <<now, minted>>
  /\ UNCHANGED fileVars

\* POST /google with email and googleId: a credential, when given, is verified
\* and the outcome is dropped; an unknown email gets a new active user with a
\* password nobody was told, a known one is activated and linked; 200 with a
\* token for the user
GoogleLogin(e, c) ==
  /\ accounts' = [accounts EXCEPT ![e] =
       IF ~accounts[e].exists
       THEN [NoUser EXCEPT !.exists = TRUE, !.isActive = TRUE,
                           !.password = "random", !.googleId = TRUE]
       ELSE [@ EXCEPT !.isActive = TRUE, !.googleId = TRUE]]
  /\ reply' = Answer("google", e, "", c, 0, 200, generateToken(e), accounts[e])
  /\ UNCHANGED <<now, minted>>
  /\ UNCHANGED fileVars

\* time passes
Tick ==
  /\ now < MaxTime
  /\ now' = now + 1
  /\ UNCHANGED <<accounts, minted, reply>>
  /\ UNCHANGED fileVars

\* one user's requests: u1 works on folders Docs and D.cs and uploads three
\* files, one of them named like a folder
Folders == {<<"u1", Docs>>, <<"u1", DotCs>>}
Uploads == {<<"u1", Report, 50>>, <<"u1", Notes, 25>>, <<"u1", Docs, 25>>}
Inputs ==
  FolderRequests(Folders, ParentChoices) \cup UploadRequests(Uploads, ParentChoices) \cup DeleteRequests({"u1"})

\* requests handled one at a time, the database answering every call
Next == Start(1, Inputs, MaxRequests, MaxFiles) \/ Step(1)
Spec == Init /\ [][Next]_vars

\* two users' requests: each owns a folder Docs and a file report.pdf, and
\* each may name the other's entries
Folders2 == {<<"u1", Docs>>, <<"u2", Docs>>}
Uploads2 == {<<"u1", Report, 50>>, <<"u2", Report, 50>>}
Inputs2 ==
  FolderRequests(Folders2, ParentChoices) \cup UploadRequests(Uploads2, ParentChoices) \cup DeleteRequests(Users)

Next2 == Start(1, Inputs2, MaxRequests, MaxFiles) \/ Step(1)
TwoUserSpec == Init /\ [][Next2]_vars

\* one user's requests handled at the same time, interleaved at their awaits:
\* u1 creates folder Docs, uploads two files at root or into a folder, deletes
FoldersC == {<<"u1", Docs>>}
UploadsC == {<<"u1", Report, 50>>, <<"u1", Notes, 25>>}
InputsC ==
  FolderRequests(FoldersC, {0} \cup KnownIds) \cup UploadRequests(UploadsC, {0} \cup KnownIds)
  \cup {Request("delete", "u1", <<>>, 0, 0, id) : id \in KnownIds}

NextC == \E r \in Slots : Start(r, InputsC, MaxConcurrent, MaxFiles) \/ Step(r)
ConcSpec == Init /\ [][NextC]_vars

\* the cascade over two folders with a file each: u1 creates folders D.cs and
\* Docs at root, uploads report.pdf into a folder, deletes
FoldersD == {<<"u1", DotCs>>, <<"u1", Docs>>}
UploadsD == {<<"u1", Report, 50>>}
InputsD ==
  FolderRequests(FoldersD, {0} \cup KnownIds) \cup UploadRequests(UploadsD, KnownIds)
  \cup {Request("delete", "u1", <<>>, 0, 0, id) : id \in KnownIds}

NextD == Start(1, InputsD, MaxRequests + MaxDeep, MaxFiles + MaxDeep) \/ Step(1)
CascadeSpec == Init /\ [][NextD]_vars

\* both users create, upload and delete while either of them downloads, lists,
\* searches and lists by path
FoldersR == {<<"u1", Docs>>}
UploadsR == {<<"u1", Report, 50>>, <<"u1", Notes, 25>>, <<"u2", Report, 50>>}
Patterns == {<<>>, <<"d">>, <<".">>}
InputsR ==
  FolderRequests(FoldersR, {0} \cup KnownIds) \cup UploadRequests(UploadsR, {0} \cup KnownIds)
    \cup DeleteRequests({"u1"}) \cup DownloadRequests(Users)
    \cup ListRequests(Users, {0} \cup KnownIds) \cup SearchRequests(Users, Patterns)
    \cup PathRequests(Users, {RootPath(Docs)})
StepR(r) ==
  \/ Step(r) \/ DownloadFindById(r) \/ DownloadSign(r)
  \/ ListFind(r) \/ PathFind(r) \/ SearchFind(r)
NextR == Start(1, InputsR, MaxRequests, MaxFiles) \/ StepR(1)
ReadSpec == Init /\ [][NextR]_vars

\* one user's requests, any of which may stop with an error at any await
FoldersF == {<<"u1", Docs>>}
UploadsF == {<<"u1", Report, 50>>, <<"u1", Notes, 25>>}
InputsF ==
  FolderRequests(FoldersF, {0} \cup KnownIds) \cup UploadRequests(UploadsF, {0} \cup KnownIds)
    \cup {Request("delete", "u1", <<>>, 0, 0, id) : id \in KnownIds}
NextF == Start(1, InputsF, MaxRequests, MaxFiles) \/ Step(1) \/ Fail(1)
FaultSpec == Init /\ [][NextF]_vars

\* one user's uploads around the capacity: 1000, 500 and 0 bytes
FoldersQ == {<<"u1", DotCs>>}
UploadsQ == {<<"u1", Report, 50>>, <<"u1", Notes, 25>>, <<"u1", Docs, 0>>}
InputsQ ==
  FolderRequests(FoldersQ, {0} \cup KnownIds) \cup UploadRequests(UploadsQ, {0} \cup KnownIds)
    \cup {Request("delete", "u1", <<>>, 0, 0, id) : id \in KnownIds}
NextQ == Start(1, InputsQ, MaxRequests, MaxFiles) \/ Step(1)
QuotaSpec == Init /\ [][NextQ]_vars

\* the auth routes, one request at a time, while the clock runs: requests name
\* the email of a member or the email nobody has registered yet
Visitors == {"u1", "u3"}
NextA ==
  \/ \E e \in Visitors, pw \in Passwords : Register(e, pw)
  \/ \E raw \in RawTokens : Activate(raw)
  \/ \E e \in Visitors, pw \in Passwords : Login(e, pw)
  \/ \E e \in Visitors : ForgotPassword(e)
  \/ \E e \in Visitors : ResendActivation(e)
  \/ \E raw \in RawTokens, pw \in Passwords : ResetPassword(raw, pw)
  \/ \E e \in Visitors, c \in Credentials : GoogleLogin(e, c)
  \/ Tick
AuthSpec == Init /\ [][NextA]_vars

\* ================================================================== claims
\* what a finished request saw when it started (one request at a time): the
\* documents 1..len0, of which del0 were deleted, and used0 bytes in use
Done(r) == req[r].pc = "done"
Live0(q) == (1..q.len0) \ q.del0

\* s begins with the literal string p + "/"
LiteralUnder(p, s) ==
  /\ Len(s) >= Len(p) + 1
  /\ SubSeq(s, 1, Len(p) + 1) = p \o <<"/">>

\* the sizes of the listed File documents of user u that are not deleted
LiveFiles(u) ==
  {i \in 1..Len(files) : files[i].owner = u /\ files[i].type = "file" /\ ~files[i].isDeleted}
UsedByFiles(u) == legacyBytes[u] + SumSizes(LiveFiles(u))

\* C1: whenever no request is in flight, each user's usedBytes equals the sum
\* of sizeBytes over that user's non-deleted File entries.
C1_UsedMatchesFiles ==
  Quiescent => \A u \in Users : storageUsed[u] = UsedByFiles(u)

\* the entries of the requester that were visible when request q started and
\* whose path begins with the path of q's target followed by "/"
LiteralDescendants0(q) ==
  {i \in Live0(q) : /\ files[i].owner = q.user
                    /\ LiteralUnder(files[q.id].path, files[i].path)}

OwnFolderDelete(q) ==
  /\ q.pc = "done" /\ q.op = "delete" /\ q.id \in 1..q.len0
  /\ files[q.id].owner = q.user /\ files[q.id].type = "folder"

\* C2: a finished deleteEntry on a folder F of the requester has set isDeleted
\* on exactly F and the visible entries of that owner whose path begins with
\* the literal F.path + "/"; no other entry changed.
C2_CascadeExact ==
  \A r \in Slots :
    OwnFolderDelete(req[r]) =>
      Deleted = req[r].del0 \cup {req[r].id} \cup LiteralDescendants0(req[r])

\* C3: an upload whose size would take usedBytes over the capacity is answered
\* with the storage-limit error and leaves usedBytes as it was.
C3_QuotaExceeded ==
  \A r \in Slots :
    LET q == req[r] IN
    (q.op = "upload" /\ q.used0 + q.size > MAX_STORAGE) =>
      /\ q.pc \in {"u_findUser", "done"}
      /\ storageUsed[q.user] = q.used0
      /\ Done(r) => (q.status = 400 /\ q.msg = "limit" /\ Len(files) = q.len0)

C3_Witness ==
  \E r \in Slots :
    /\ Done(r) /\ req[r].op = "upload" /\ req[r].msg = "limit"
    /\ req[r].used0 + req[r].size > MAX_STORAGE
    /\ req[r].used0 <= MAX_STORAGE

\* C4: a deleteEntry on an entry of the requester that an earlier deleteEntry
\* already deleted fails with NotFound.
C4_SecondDeleteNotFound ==
  \A r \in Slots :
    LET q == req[r] IN
    (Done(r) /\ q.op = "delete" /\ q.id \in q.del0 /\ files[q.id].owner = q.user) =>
      q.status = 404

Upload201(q) == q.pc = "done" /\ q.op = "upload" /\ q.status = 201

\* C5: when the only two requests of a run are uploads of one user that both
\* succeeded, the stored usedBytes is the value before them plus both sizes.
C5_NoLostUpdate ==
  \A r1, r2 \in Slots :
    (/\ r1 # r2 /\ started = 2
     /\ Upload201(req[r1]) /\ Upload201(req[r2])
     /\ req[r1].user = req[r2].user) =>
      storageUsed[req[r1].user] = legacyBytes[req[r1].user] + req[r1].size + req[r2].size

\* C6: usedBytes never exceeds the capacity, and two uploads of one user never
\* both pass the capacity check when their sizes together exceed what is left.
C6_CapacityAtomic ==
  /\ \A u \in Users : storageUsed[u] <= MAX_STORAGE
  /\ \A r1, r2 \in Slots :
       (/\ r1 # r2 /\ started = 2
        /\ Upload201(req[r1]) /\ Upload201(req[r2])
        /\ req[r1].user = req[r2].user) =>
         legacyBytes[req[r1].user] + req[r1].size + req[r2].size <= MAX_STORAGE

\* a visible entry of the given kind with the name, parent and owner of
\* request q existed when q started
SiblingAt0(q, type) ==
  \E i \in Live0(q) : /\ files[i].name = q.name /\ files[i].type = type
                      /\ files[i].parentFolder = q.parent /\ files[i].owner = q.user

\* C7: createFolder is refused, creating nothing, exactly when a visible Folder
\* of that name exists under the owner and parent; uploadFile (within quota) is
\* refused for a name exactly when a visible File of that name exists there,
\* and otherwise stores the file, a Folder of that name notwithstanding.
C7_SameKindCollision ==
  \A r \in Slots :
    LET q == req[r] IN
    /\ (Done(r) /\ q.op = "folder") =>
         IF SiblingAt0(q, "folder")
         THEN q.status = 400 /\ q.msg = "exists" /\ Len(files) = q.len0
         ELSE q.status = 201 /\ Len(files) = q.len0 + 1
    /\ (Done(r) /\ q.op = "upload" /\ q.msg # "limit") =>
         IF SiblingAt0(q, "file")
         THEN /\ q.status = 400 /\ q.msg = "exists" /\ Len(files) = q.len0
              /\ storageUsed[q.user] = q.used0
         ELSE q.status # 400 /\ (q.status = 201 => Len(files) = q.len0 + 1)

C7_Witness ==
  \E r \in Slots :
    /\ Upload201(req[r]) /\ SiblingAt0(req[r], "folder")
    /\ files[Len(files)].name = req[r].name /\ files[Len(files)].type = "file"

\* the entries a delete request q is about: its target and, for a folder, the
\* visible entries under the target's path
Scope0(q) ==
  {q.id} \cup (IF files[q.id].type = "folder" THEN LiteralDescendants0(q) ELSE {})
FilesOf(S) == {i \in S : files[i].type = "file"}
\* the File entries of the scope whose object is still in the bucket
BlobLeft(q) == {i \in FilesOf(Scope0(q)) : files[i].s3Key \in blobs}

\* C8: a finished deleteEntry of the owner during which the BlobStore delete
\* failed for File entries of the scope reports success, has every entry of
\* the scope marked deleted, and has decreased usedBytes by the sum of
\* sizeBytes of the scope's File entries.
C8_BlobFailureIgnored ==
  \A r \in Slots :
    LET q == req[r] IN
    (/\ Done(r) /\ q.op = "delete" /\ q.id \in Live0(q)
     /\ files[q.id].owner = q.user /\ BlobLeft(q) # {}) =>
      /\ q.status = 200
      /\ Scope0(q) \subseteq Deleted
      /\ storageUsed[q.user] = q.used0 - SumSizes(FilesOf(Scope0(q)))

\* C9: the end-to-end scenario.  With usedBytes 0: folder Docs at root is
\* created with path /Docs; report.pdf (1000 bytes) uploaded into it gets path
\* /Docs/report.pdf and usedBytes 1000; notes.txt (500 bytes) at root makes it
\* 1500; deleting Docs soft-deletes report.pdf, reports and stores 500, and
\* notes.txt is still listed at root.
IsInput(q, op, name, parent, size, id) ==
  /\ q.pc = "done" /\ q.op = op /\ q.user = "u1" /\ q.name = name
  /\ q.parent = parent /\ q.size = size /\ q.id = id
Made(i, type, name, parent, size) ==
  /\ i <= Len(files) /\ files[i].type = type /\ files[i].name = name
  /\ files[i].parentFolder = parent /\ files[i].size = size /\ files[i].owner = "u1"
ScenarioFiles(n) ==
  /\ legacyBytes["u1"] = 0 /\ started = n
  /\ n >= 1 => Made(1, "folder", Docs, 0, 0)
  /\ n >= 2 => Made(2, "file", Report, 1, 50)
  /\ n >= 3 => Made(3, "file", Notes, 0, 25)
ScenarioDeleted ==
  /\ ScenarioFiles(4) /\ Len(files) = 3
  /\ IsInput(req[1], "delete", <<>>, 0, 0, 1)

C9_Scenario ==
  /\ (ScenarioFiles(1) /\ IsInput(req[1], "folder", Docs, 0, 0, 1)) =>
       /\ req[1].status = 201 /\ files[1].path = <<"/", "D", "o", "c", "s">>
       /\ storageUsed["u1"] = 0
  /\ (ScenarioFiles(2) /\ IsInput(req[1], "upload", Report, 1, 50, 2)) =>
       /\ req[1].status = 201 /\ storageUsed["u1"] = 50 /\ req[1].out = 50
       /\ files[2].path = <<"/", "D", "o", "c", "s", "/">> \o Report
  /\ (ScenarioFiles(3) /\ IsInput(req[1], "upload", Notes, 0, 25, 3)) =>
       /\ req[1].status = 201 /\ storageUsed["u1"] = 75 /\ req[1].out = 75
  /\ ScenarioDeleted =>
       /\ req[1].status = 200 /\ files[1].isDeleted /\ files[2].isDeleted
       /\ req[1].out = 25 /\ storageUsed["u1"] = 25
       /\ List("u1", 0) = {3}

C9_Witness == ScenarioDeleted /\ req[1].status = 200

\* C10: createFolder and uploadFile with a non-null parentId fail with NotFound
\* when no entry has that id and with Forbidden when the parent belongs to
\* another owner, creating no entry and leaving usedBytes unchanged.
C10_BadParentRejected ==
  \A r \in Slots :
    LET q == req[r] IN
    (/\ Done(r) /\ q.op \in {"folder", "upload"} /\ q.parent # 0
     /\ q.msg \notin {"limit", "exists", "error"}) =>
      /\ q.parent \notin 1..q.len0 =>
           q.status = 404 /\ Len(files) = q.len0 /\ storageUsed[q.user] = q.used0
      /\ (q.parent \in 1..q.len0 /\ files[q.parent].owner # q.user) =>
           q.status = 403 /\ Len(files) = q.len0 /\ storageUsed[q.user] = q.used0

\* a finished createFolder or uploadFile that no earlier check turned away
Created(q) ==
  /\ q.pc = "done" /\ q.op \in {"folder", "upload"}
  /\ q.msg \notin {"limit", "exists", "error"}

\* C11: createFolder and uploadFile whose parentId refers to a File fail with
\* InvalidKind (400) and create no entry, and no entry has a File as parent.
C11_FileParentRejected ==
  /\ \A r \in Slots :
       LET q == req[r] IN
       (Created(q) /\ q.parent \in 1..q.len0 /\ files[q.parent].type = "file") =>
         q.status = 400 /\ Len(files) = q.len0
  /\ \A i \in Ids :
       (files[i].parentFolder # 0 /\ Exists(files[i].parentFolder)) =>
         files[files[i].parentFolder].type = "folder"

\* C12: every entry without a parent has path "/" + name, and every entry with
\* a parent has the path of the entry its parentFolder refers to, "/", name.
C12_PathFromParent ==
  \A i \in Ids :
    IF files[i].parentFolder = 0
    THEN files[i].path = RootPath(files[i].name)
    ELSE /\ Exists(files[i].parentFolder)
         /\ files[i].path = ChildPath(files[files[i].parentFolder].path, files[i].name)

\* C13: every entry with a parent refers to an existing entry that has the
\* same owner as the child.
C13_ParentSameOwner ==
  \A i \in Ids :
    files[i].parentFolder # 0 =>
      /\ Exists(files[i].parentFolder)
      /\ files[files[i].parentFolder].owner = files[i].owner

\* C14: in every state, those reached by interleaving two creates of one name
\* included, at most one non-deleted entry exists per owner, parent, name
\* and kind.
C14_UniqueSiblings ==
  \A i, j \in Ids :
    (/\ i # j /\ ~files[i].isDeleted /\ ~files[j].isDeleted
     /\ files[i].owner = files[j].owner /\ files[i].parentFolder = files[j].parentFolder
     /\ files[i].name = files[j].name) =>
      files[i].type # files[j].type

\* a deleteEntry of a requester who does not own the target
ForeignDelete(q) ==
  /\ q.op = "delete" /\ q.pc # "idle" /\ Exists(q.id)
  /\ files[q.id].owner # q.user

\* C15: deleteEntry by a requester who is not the owner is answered Forbidden
\* (403) straight after the lookup, and no step of it changes an entry, the
\* bucket or either user's usedBytes.
C15_ForeignDeleteForbidden ==
  /\ [](\A r \in Slots :
         ForeignDelete(req[r]) =>
           /\ req[r].pc \in {"d_findById", "done"}
           /\ Done(r) => (req[r].status = 403 /\ Deleted = req[r].del0))
  /\ [][(\E r \in Slots : ForeignDelete(req[r]) /\ InFlight(r)) =>
          UNCHANGED <<files, storageUsed, blobs>>]_vars

C15_Witness ==
  \E r \in Slots :
    /\ Done(r) /\ ForeignDelete(req[r]) /\ req[r].status = 403
    /\ files[req[r].id].type = "folder" /\ ~files[req[r].id].isDeleted
    /\ \E i \in Ids : /\ files[i].parentFolder = req[r].id /\ ~files[i].isDeleted
                       /\ files[i].s3Key \in blobs
                       /\ storageUsed[files[i].owner] >= files[i].size

\* C16: getDownloadUrl on an entry that was soft-deleted before the request
\* fails with NotFound (404) and returns no signed URL.
C16_DeletedNotDownloadable ==
  \A r \in Slots :
    LET q == req[r] IN
    (Done(r) /\ q.op = "download" /\ q.id \in q.del0 /\ q.msg # "error") =>
      q.status = 404 /\ q.url = 0

\* C17: getDownloadUrl signs a URL only for a stored File of the requester; an
\* unknown id is answered 404, another owner's entry 403 and a Folder 400, and
\* in none of these cases is getSignedDownloadUrl reached.
C17_DownloadChecks ==
  \A r \in Slots :
    LET q == req[r]
        mine == Exists(q.id) /\ files[q.id].owner = q.user IN
    (q.op = "download" /\ q.pc # "idle") =>
      /\ (q.pc = "g_sign" \/ q.url # 0) => (mine /\ files[q.id].type = "file")
      /\ Done(r) =>
           /\ ~Exists(q.id) => q.status = 404
           /\ (Exists(q.id) /\ ~mine) => q.status = 403
           /\ (mine /\ files[q.id].type = "folder") => q.status = 400
           /\ q.status = 200 => q.url = files[q.id].s3Key

C17_Witness ==
  \E r \in Slots :
    /\ Done(r) /\ req[r].op = "download" /\ req[r].status = 400
    /\ Exists(req[r].id) /\ files[req[r].id].owner = req[r].user
    /\ files[req[r].id].type = "folder"

\* a finished list, search or path listing
Listing(q) == q.pc = "done" /\ q.op \in {"list", "search", "path"}

C19_ReturnsStoredUsage ==
  \A r \in Slots :
    LET q == req[r] IN
    (Done(r) /\ q.op \in {"upload", "delete"} /\ q.status \in {200, 201}) =>
      q.out = storageUsed[q.user]

C19_Witness ==
  \E r \in Slots :
    /\ OwnFolderDelete(req[r]) /\ req[r].status = 200
    /\ req[r].out < req[r].used0 /\ req[r].out > 0

\* the sum the owner's File entries came to when request q started
UsedByFiles0(q) ==
  legacyBytes[q.user] +
    SumSizes({i \in Live0(q) : files[i].owner = q.user /\ files[i].type = "file"})

\* C20: a deleteEntry request that starts with usedBytes at or above the sum
\* of sizeBytes of the owner's non-deleted File entries keeps it there at
\* every step, wherever it stops: entries are marked deleted before usedBytes
\* is decreased.
C20_MarkBeforeRelease ==
  \A r \in Slots :
    LET q == req[r] IN
    (q.op = "delete" /\ q.pc # "idle" /\ q.used0 >= UsedByFiles0(q)) =>
      storageUsed[q.user] >= UsedByFiles(q.user)

\* C21: an uploadFile that started with usedBytes at or above the sum of
\* sizeBytes of the owner's non-deleted File entries and ended, at whatever
\* step it failed, leaves usedBytes at or above that sum.
C21_UploadFailureStaleHigh ==
  \A r \in Slots :
    LET q == req[r] IN
    (Done(r) /\ q.op = "upload" /\ q.used0 >= UsedByFiles0(q)) =>
      storageUsed[q.user] >= UsedByFiles(q.user)

\* a finished successful deleteEntry of a folder of the requester, and a
\* finished successful uploadFile of that user into that folder
FolderDelete200(q) == OwnFolderDelete(q) /\ q.status = 200
UploadInto(q, d) == Upload201(q) /\ q.user = d.user /\ q.parent = d.id

\* C22: when a deleteEntry on a folder and an uploadFile of the same user into
\* that folder ran together and both finished, the File entries whose sizes
\* the delete subtracted are the File entries its cascade marked deleted, and
\* usedBytes equals the sum of sizeBytes of the user's non-deleted files.
C22_CascadeAgainstUpload ==
  \A r1, r2 \in Slots :
    (/\ r1 # r2 /\ started = 3
     /\ FolderDelete200(req[r1]) /\ UploadInto(req[r2], req[r1])) =>
      /\ FilesOf(req[r1].kids) = FilesOf(Deleted \ {req[r1].id})
      /\ storageUsed[req[r1].user] = UsedByFiles(req[r1].user)

\* C23: whenever no request is in flight, every non-deleted entry whose parent
\* is stored has a non-deleted parent; createFolder and uploadFile under a
\* soft-deleted folder fail with NotFound (404) and create no entry.
C23_NoLiveUnderDeleted ==
  /\ Quiescent =>
       \A i \in Ids :
         (~files[i].isDeleted /\ files[i].parentFolder # 0 /\ Exists(files[i].parentFolder)) =>
           ~files[files[i].parentFolder].isDeleted
  /\ \A r \in Slots :
       (Created(req[r]) /\ req[r].parent \in req[r].del0) =>
         req[r].status = 404 /\ Len(files) = req[r].len0

\* the File entries a finished delete request turned from visible to deleted
MarkedFiles(q) == FilesOf(Deleted \ q.del0)

\* C24: one successful deleteEntry decreases usedBytes by exactly the sum of
\* sizeBytes of the File entries it marked deleted, provided usedBytes was at
\* least that sum.
C24_ReleaseEqualsMarked ==
  \A r \in Slots :
    LET q == req[r] IN
    (/\ Done(r) /\ q.op = "delete" /\ q.status = 200
     /\ q.used0 >= SumSizes(MarkedFiles(q))) =>
      storageUsed[q.user] = q.used0 - SumSizes(MarkedFiles(q))

\* C25: usedBytes is never negative; a delete whose decrease is larger than
\* usedBytes succeeds and leaves usedBytes 0.
C25_UsageFloorZero ==
  /\ \A u \in Users : storageUsed[u] >= 0
  /\ \A r \in Slots :
       LET q == req[r] IN
       (/\ Done(r) /\ q.op = "delete" /\ Exists(q.id) /\ files[q.id].owner = q.user
        /\ files[q.id].type = "file" /\ files[q.id].size > q.used0) =>
         q.status = 200 /\ storageUsed[q.user] = 0 /\ q.out = 0

C25_Witness ==
  \E r \in Slots :
    /\ Done(r) /\ req[r].op = "delete" /\ req[r].status = 200
    /\ Exists(req[r].id) /\ files[req[r].id].type = "file"
    /\ files[req[r].id].size > req[r].used0 /\ storageUsed[req[r].user] = 0

\* an uploadFile whose size does not fit
TooBig(q) == q.op = "upload" /\ q.pc # "idle" /\ q.used0 + q.size > MAX_STORAGE

\* C26: an uploadFile that fails with QuotaExceeded never reaches the blob put
\* or a metadata write: no step of it changes the bucket, the entries or the
\* key counter.
C26_QuotaCheckFirst ==
  /\ [](\A r \in Slots :
         /\ TooBig(req[r]) => req[r].pc \notin {"u_findOne", "u_findParent", "u_s3", "u_save", "u_saveUser"}
         /\ (Done(r) /\ req[r].op = "upload" /\ req[r].msg = "limit") =>
              (TooBig(req[r]) /\ Len(files) = req[r].len0))
  /\ [][(\E r \in Slots : TooBig(req[r]) /\ InFlight(r)) =>
          UNCHANGED <<files, blobs, nextKey>>]_vars

C26_Witness ==
  \E r \in Slots :
    /\ Done(r) /\ TooBig(req[r]) /\ req[r].msg = "limit" /\ req[r].status = 400
    /\ req[r].used0 < MAX_STORAGE /\ blobs # {}

\* C27: the quota check rejects an upload exactly when usedBytes + size is
\* above the capacity: reaching the capacity exactly is accepted, and so is an
\* upload of size 0 at any usedBytes up to the capacity.
C27_LimitExact ==
  \A r \in Slots :
    LET q == req[r] IN
    (q.op = "upload" /\ q.pc \notin {"idle", "u_findUser"}) =>
      /\ (q.pc = "done" /\ q.msg = "limit") <=> q.used0 + q.size > MAX_STORAGE
      /\ (q.size = 0 /\ q.used0 <= MAX_STORAGE) => q.msg # "limit"
      /\ (Upload201(q) /\ q.used0 + q.size = MAX_STORAGE) => storageUsed[q.user] = MAX_STORAGE

C27_Witness ==
  \E r \in Slots :
    /\ Upload201(req[r]) /\ req[r].size = 0 /\ req[r].used0 = MAX_STORAGE
    /\ storageUsed[req[r].user] = MAX_STORAGE

\* C28: when the blob put of an uploadFile fails the request ends with an
\* error (500), no File entry is created and usedBytes is unchanged.
C28_PutFailure ==
  \A r \in Slots :
    LET q == req[r] IN
    /\ (q.op = "upload" /\ q.pc \in {"u_save", "u_saveUser"}) => q.key \in blobs
    /\ (Done(r) /\ q.op = "upload" /\ q.status = 500) =>
         /\ Len(files) = q.len0 /\ storageUsed[q.user] = q.used0
         /\ q.msg = "error"
    /\ Upload201(q) => files[q.id].s3Key # 0

C28_Witness ==
  \E r \in Slots :
    /\ Done(r) /\ req[r].op = "upload" /\ req[r].status = 500
    /\ req[r].used0 + req[r].size <= MAX_STORAGE /\ ~SiblingAt0(req[r], "file")

\* an uploadFile that fits and meets a visible File of its name
Colliding(q) ==
  /\ q.op = "upload" /\ q.pc # "idle"
  /\ q.used0 + q.size <= MAX_STORAGE /\ SiblingAt0(q, "file")

\* C29: an uploadFile that fails with Conflict leaves the state unchanged: no
\* blob is stored, no entry is created and usedBytes keeps its value.
C29_ConflictChangesNothing ==
  /\ [](\A r \in Slots :
         Colliding(req[r]) =>
           /\ req[r].pc \in {"u_findUser", "u_findOne", "done"}
           /\ Done(r) => (req[r].status = 400 /\ req[r].msg = "exists"))
  /\ [][(\E r \in Slots : Colliding(req[r]) /\ InFlight(r)) =>
          UNCHANGED <<files, blobs, nextKey, storageUsed>>]_vars

C29_Witness ==
  \E r \in Slots :
    /\ Done(r) /\ Colliding(req[r]) /\ req[r].msg = "exists"
    /\ Len(files) = req[r].len0 /\ storageUsed[req[r].user] = req[r].used0

\* C30: no step removes an entry, clears isDeleted or changes the name, kind,
\* path, parent, owner or size of an entry.
C30_SoftDeleteOnly ==
  [][/\ Len(files') >= Len(files)
     /\ \A i \in 1..Len(files) :
          /\ files[i].isDeleted => files'[i].isDeleted
          /\ [files'[i] EXCEPT !.isDeleted = FALSE] = [files[i] EXCEPT !.isDeleted = FALSE]]_vars

C30_Witness ==
  \E r \in Slots :
    /\ Done(r) /\ req[r].op = "delete" /\ req[r].status = 200
    /\ req[r].id \in req[r].del0 /\ files[req[r].id].isDeleted

\* the entries of the users other than the requester of q
Foreign(q) == {i \in Ids : files[i].owner # q.user}

\* a deleteEntry of the requester on one of their own folders
OwnFolderTarget(q) ==
  /\ q.op = "delete" /\ q.pc # "idle" /\ Exists(q.id)
  /\ files[q.id].owner = q.user /\ files[q.id].type = "folder"

\* C31: a deleteEntry of user A on one of A's folders changes no entry of
\* another user and no other user's usedBytes, at any of its steps, whatever
\* the paths of the other users' entries.
C31_CascadeOwnerScoped ==
  /\ [](\A r \in Slots :
         OwnFolderTarget(req[r]) =>
           Foreign(req[r]) \cap Deleted = Foreign(req[r]) \cap req[r].del0)
  /\ [][\A r \in Slots :
          (OwnFolderTarget(req[r]) /\ InFlight(r)) =>
            /\ \A i \in Foreign(req[r]) : files'[i] = files[i]
            /\ \A u \in Users \ {req[r].user} : storageUsed'[u] = storageUsed[u]]_vars

C31_Witness ==
  \E r \in Slots :
    /\ Done(r) /\ OwnFolderTarget(req[r]) /\ req[r].status = 200
    /\ \E i \in Foreign(req[r]) :
         /\ LiteralUnder(files[req[r].id].path, files[i].path)
         /\ files[i].type = "file" /\ ~files[i].isDeleted
         /\ storageUsed[files[i].owner] = files[i].size

\* an entry deleted before request q started that has the kind, name, parent
\* and owner q asks for
DeletedSiblingAt0(q, type) ==
  \E i \in q.del0 : /\ files[i].name = q.name /\ files[i].type = type
                     /\ files[i].parentFolder = q.parent /\ files[i].owner = q.user
KindOf(q) == IF q.op = "folder" THEN "folder" ELSE "file"

\* C32: a createFolder or uploadFile whose only same-kind siblings of that
\* name are soft-deleted succeeds; a deleteEntry on a folder marks and
\* subtracts only entries that were not deleted when it started.
C32_CollisionIgnoresDeleted ==
  \A r \in Slots :
    LET q == req[r] IN
    /\ (/\ Done(r) /\ q.op \in {"folder", "upload"} /\ q.msg \notin {"limit", "error"}
        /\ DeletedSiblingAt0(q, KindOf(q)) /\ ~SiblingAt0(q, KindOf(q))) =>
         q.status = 201 /\ Len(files) = q.len0 + 1
    /\ (OwnFolderDelete(q) /\ q.status = 200) =>
         /\ q.kids \subseteq Live0(q)
         /\ storageUsed[q.user] = Max(0, q.used0 - SumSizes(FilesOf(q.kids)))

C32_Witness ==
  \E r \in Slots :
    LET q == req[r] IN
    /\ OwnFolderDelete(q) /\ q.status = 200 /\ q.id \in Live0(q)
    /\ \E j \in q.del0 : /\ files[j].type = "folder" /\ files[j].name = files[q.id].name
                         /\ files[j].parentFolder = files[q.id].parentFolder
                         /\ files[j].owner = q.user
    /\ \E k \in q.del0 : /\ files[k].type = "file" /\ files[k].owner = q.user
                         /\ LiteralUnder(files[q.id].path, files[k].path)

\* C33: list returns exactly the non-deleted entries of the requester under
\* the given parent (0 for the root level), each once, all folders before all
\* files and by ascending name within each kind.
C33_ListExactAndOrdered ==
  \A r \in Slots :
    LET q == req[r]
        s == q.sorted IN
    (Done(r) /\ q.op = "list") =>
      /\ {s[a] : a \in 1..Len(s)} =
           {i \in Live0(q) : files[i].owner = q.user /\ files[i].parentFolder = q.parent}
      /\ \A a, b \in 1..Len(s) :
           a < b =>
             /\ s[a] # s[b]
             /\ ~(files[s[a]].type = "file" /\ files[s[b]].type = "folder")
             /\ files[s[a]].type = files[s[b]].type =>
                  ~NameBefore(files[s[b]].name, files[s[a]].name)

C33_Witness ==
  \E r \in Slots :
    /\ Done(r) /\ req[r].op = "list" /\ req[r].parent = 0
    /\ req[r].sorted = <<3, 2, 1>>
    /\ files[1].name = Report /\ files[2].name = Notes /\ files[3].type = "folder"

\* the password of a login request is the one stored when the request came in
Matched(a) == a.before.exists /\ a.password = a.before.password

\* C34: the password login answers with a token exactly when a user with that
\* email exists, is active and the password matches, and the token is that
\* user's; an account that was registered and not activated gets none.
C34_LoginNeedsActiveAccount ==
  reply.op = "login" =>
    /\ reply.token # "" <=> (Matched(reply) /\ reply.before.isActive)
    /\ reply.token # "" => (reply.token = reply.email /\ reply.status = 200)
    /\ reply.token = "" => reply.status = 401
    /\ accounts[reply.email] = reply.before

C34_Witness ==
  /\ reply.op = "login" /\ Matched(reply) /\ ~reply.before.isActive
  /\ reply.email \notin Users /\ reply.before.activationToken # 0
  /\ reply.status = 401 /\ reply.token = ""

\* the activation token of the last request was stored and unexpired for the
\* account it met
ValidActivation(a) ==
  /\ a.op = "activate" /\ a.before.exists
  /\ a.before.activationToken = Hash(a.raw)
  /\ a.before.activationTokenExpires > a.at
\* the Google credential of the last request was given and verified
VerifiedGoogle(a) == a.op = "google" /\ a.credential = "valid"
\* the last request turned an inactive account active
Activated(a) ==
  /\ a.email # "" /\ a.before.exists /\ ~a.before.isActive
  /\ accounts[a.email].isActive

\* C35: a token is issued only for a matching password on an active account
\* or a verified Google credential; an inactive account becomes active only
\* by a valid unexpired activation token or a verified Google credential; a
\* Google login without a verified credential issues no token, activates no
\* account and creates none.
C35_ProofOfControl ==
  /\ reply.token # "" =>
       \/ reply.op = "login" /\ Matched(reply) /\ reply.before.isActive
       \/ VerifiedGoogle(reply)
  /\ Activated(reply) => (ValidActivation(reply) \/ VerifiedGoogle(reply))
  /\ (reply.op = "google" /\ ~VerifiedGoogle(reply)) =>
       /\ reply.token = ""
       /\ accounts[reply.email] = reply.before
====
